---- MODULE Spec2Model ----
(***************************************************************************)
(* Model of SpineTester/LCD.hpp: class LCD_Display, a wrapper that owns    *)
(* one LiquidCrystal_I2C driver object and forwards calls to it.           *)
(*                                                                         *)
(* The driver library itself is outside the repository.  It is modelled by *)
(* what the wrapper can do to it: the driver object holds the three        *)
(* constructor arguments and the sequence of member calls it has received, *)
(* each with the argument values of the call expression in LCD.hpp.        *)
(*                                                                         *)
(* Characters are their byte values (0..255); a C string is the sequence   *)
(* of its bytes without the terminating NUL.                               *)
(***************************************************************************)
EXTENDS Integers, Sequences, FiniteSets

VARIABLES lcd, copy, hist

vars == <<lcd, copy, hist>>

(* Number of calls made by the caller in one behaviour of Spec. *)
MaxOps == 3

(* Number of writeString calls in one behaviour of SpecFmt. *)
MaxFmtOps == 2

(* char buffer[128] *)
BufSize == 128

(***************************************************************************)
(* The driver object.                                                      *)
(***************************************************************************)

LiquidCrystal_I2C(addr, cols, rows) ==
    [addr |-> addr, cols |-> cols, rows |-> rows, calls |-> <<>>]

(* A member call on driver object l: f is the member, a its arguments. *)
Recv(l, f, a) == [l EXCEPT !.calls = Append(@, [f |-> f, a |-> a])]

lcd_init(l) == Recv(l, "init", <<>>)

lcd_backlight(l) == Recv(l, "backlight", <<>>)

lcd_clear(l) == Recv(l, "clear", <<>>)

lcd_setCursor(l, x, y) == Recv(l, "setCursor", <<x, y>>)

lcd_print(l, str) == Recv(l, "print", str)

lcd_write(l, c) == Recv(l, "write", <<c>>)

(***************************************************************************)
(* vsnprintf and the reading of a C string from a buffer.                  *)
(***************************************************************************)

Min(a, b) == IF a <= b THEN a ELSE b

Rep(c, n) == [i \in 1..n |-> c]

RECURSIVE Digits(_)
Digits(n) == IF n < 10 THEN <<48 + n>> ELSE Append(Digits(n \div 10), 48 + (n % 10))

(* %d *)
IntToStr(n) == IF n < 0 THEN <<45>> \o Digits(-n) ELSE Digits(n)

(* The text one conversion specifier produces from its argument. *)
Convert(spec, arg) ==
    CASE spec = 100 -> IntToStr(arg.v[1])      \* %d
      [] spec = 115 -> arg.v                   \* %s
      [] spec = 99  -> <<arg.v[1]>>            \* %c

(* Index of the first '%' of the format (0 when there is none). *)
FirstPercent(format) ==
    IF \E i \in 1..Len(format) : format[i] = 37
    THEN CHOOSE i \in 1..Len(format) :
            format[i] = 37 /\ \A j \in 1..(i - 1) : format[j] # 37
    ELSE 0

(* The format after the two bytes of the specifier at index p. *)
AfterSpec(format, p) == SubSeq(format, p + 2, Len(format))

(* The complete output of the format: literal bytes are copied, "%%"     *)
(* gives one '%', every other specifier consumes the next argument.      *)
RECURSIVE Format(_, _)
Format(format, args) ==
    LET p == FirstPercent(format)
    IN  IF p = 0 THEN format
        ELSE IF format[p + 1] = 37
        THEN SubSeq(format, 1, p) \o Format(AfterSpec(format, p), args)
        ELSE SubSeq(format, 1, p - 1) \o Convert(format[p + 1], args[1])
                \o Format(AfterSpec(format, p), Tail(args))

(* A call the C library defines: every '%' starts "%%" or one of %d %s  *)
(* %c, the arguments match the specifiers in number and type, and no     *)
(* text holds a NUL byte.                                                *)
RECURSIVE WellFormed(_, _)
WellFormed(format, args) ==
    LET p == FirstPercent(format)
    IN  IF p = 0 THEN args = <<>> /\ \A i \in 1..Len(format) : format[i] # 0
        ELSE /\ \A i \in 1..(p - 1) : format[i] # 0
             /\ Len(format) >= p + 1
             /\ \/ /\ format[p + 1] = 37
                   /\ WellFormed(AfterSpec(format, p), args)
                \/ /\ format[p + 1] \in {100, 115, 99}
                   /\ args # <<>>
                   /\ args[1].t = format[p + 1]
                   /\ \A i \in 1..Len(args[1].v) :
                         format[p + 1] \in {115, 99} => args[1].v[i] # 0
                   /\ WellFormed(AfterSpec(format, p), Tail(args))

(* Variant: the whole size is used for text, so a full buffer gets no NUL. *)
vsnprintf_noRoomForNul(buffer, size, format, args) ==
    LET out == Format(format, args)
        k   == Min(Len(out), size)
    IN  [buf |-> [i \in 1..Len(buffer) |->
                    IF i <= k THEN out[i] ELSE IF i = k + 1 THEN 0 ELSE buffer[i]],
         n   |-> Len(out)]

(* vsnprintf(buffer, size, format, args): at most size-1 bytes of the     *)
(* output are stored, then a NUL; the bytes after it keep their old       *)
(* contents.  n is the return value, the length of the complete output.   *)
vsnprintf(buffer, size, format, args) ==
    LET out == Format(format, args)
        k   == Min(Len(out), size - 1)
    IN  [buf |-> [i \in 1..Len(buffer) |->
                    IF i <= k THEN out[i] ELSE IF i = k + 1 THEN 0 ELSE buffer[i]],
         n   |-> Len(out)]

(* Index of the first NUL of the buffer (0 when there is none). *)
FirstNul(buffer) ==
    IF \E i \in 1..Len(buffer) : buffer[i] = 0
    THEN CHOOSE i \in 1..Len(buffer) :
            buffer[i] = 0 /\ \A j \in 1..(i - 1) : buffer[j] # 0
    ELSE 0

(* The C string a const char* to the start of the buffer denotes. *)
CStr(buffer) == SubSeq(buffer, 1, FirstNul(buffer) - 1)

(***************************************************************************)
(* class LCD_Display: each method as a function of the owned driver.       *)
(***************************************************************************)

(* Variant: a 16x2 display at address 0x3F. *)
LCD_Display_16x2 == LiquidCrystal_I2C(63, 16, 2)

LCD_Display == LiquidCrystal_I2C(39, 20, 4)

get_lcd(l) == l

Initialised(l) == \E i \in 1..Len(l.calls) : l.calls[i].f = "init"

(* Variant: initialises only once. *)
init_display_once(l) == IF Initialised(l) THEN l ELSE lcd_backlight(lcd_init(l))

init_display(l) == lcd_backlight(lcd_init(l))

(* Variant: prints first and moves the cursor afterwards. *)
print_x_y_message_printFirst(l, x, y, message) ==
    lcd_setCursor(lcd_print(l, message), x, y)

print_x_y_message(l, x, y, message) == lcd_print(lcd_setCursor(l, x, y), message)

(* Variant: does nothing before init_display. *)
clear_whenInitialised(l) == IF Initialised(l) THEN lcd_clear(l) ELSE l

clear(l) == lcd_clear(l)

(* Variant: keeps the position inside the 20x4 grid. *)
set_cursor_clamped(l, x, y) ==
    lcd_setCursor(l, IF x < 0 THEN 0 ELSE Min(x, 19), IF y < 0 THEN 0 ELSE Min(y, 3))

(* Variant: row and column exchanged. *)
set_cursor_rowFirst(l, x, y) == lcd_setCursor(l, y, x)

set_cursor(l, x, y) == lcd_setCursor(l, x, y)

(* Variant: homes the cursor before printing. *)
print_message_fromHome(l, message) == lcd_print(lcd_setCursor(l, 0, 0), message)

print_message(l, message) == lcd_print(l, message)

(* Variant: a buffer of 64 bytes. *)
writeString_buffer64(l, x, y, format, args, garbage) ==
    LET buffer == vsnprintf(Rep(garbage, 64), 64, format, args).buf
    IN  lcd_print(lcd_setCursor(l, x, y), CStr(buffer))

(* garbage is the content of the uninitialised local buffer. *)
writeString(l, x, y, format, args, garbage) ==
    LET buffer == vsnprintf(Rep(garbage, BufSize), BufSize, format, args).buf
    IN  lcd_print(lcd_setCursor(l, x, y), CStr(buffer))

write(l, character) == lcd_write(l, character)

(***************************************************************************)
(* The caller.  hist records every call the caller has made, with the      *)
(* part of the owned driver's call sequence that was added during it.      *)
(***************************************************************************)

Call(op, xy, s, args) == [op |-> op, xy |-> xy, s |-> s, args |-> args]

(* ret is what the call returned: every method but get_lcd is void. *)
Entry(c, l, l2, ret) ==
    [call |-> c, pre |-> Len(l.calls), post |-> Len(l2.calls), ret |-> ret]

(* Variant: get_lcd returns a reference, so the call reaches the owned driver. *)
CallOnReturned_byReference(l, c, str) ==
    [lcd |-> lcd_print(l, str), copy |-> lcd_print(l, str)]

(* A member call made by the caller on the object get_lcd returned: c is  *)
(* that object, a copy, and l, the wrapper's own driver, is not touched.  *)
CallOnReturned(l, c, str) == [lcd |-> l, copy |-> lcd_print(c, str)]

Arg(t, v) == [t |-> t, v |-> v]

FmtCall(format, args) == [format |-> format, args |-> args]

(* (19,3) is the last cell of the grid; the others lie outside it. *)
Coords == {<<19, 3>>, <<-1, -2>>, <<20, 4>>}

(* "Hi", "OK!" *)
Msgs == {<<72, 105>>, <<79, 75, 33>>}

Chars == {65, 223}

(* Contents an uninitialised buffer may have. *)
Garbage == {0, 170}

(* Without specifiers: "Hi" and a text of 127 bytes. *)
FmtCalls ==
    { FmtCall(<<72, 105>>, <<>>),
      FmtCall(Rep(98, 127), <<>>) }

(* More formats, around the size of the buffer: "", plain texts of 126    *)
(* and 128 bytes, "v=%d" with -12, "n=%d" with 0, "%d%%" with 100, "%s"   *)
(* with 126, 127, 128 and 130 bytes, "%s:%c" with "ab" and 'Z', "%s%s"    *)
(* with 100 bytes each.                                                   *)
FmtCallsAll ==
    FmtCalls \cup
    { FmtCall(<<>>, <<>>),
      FmtCall(Rep(98, 126), <<>>),
      FmtCall(Rep(98, 128), <<>>),
      FmtCall(<<118, 61, 37, 100>>, <<Arg(100, <<-12>>)>>),
      FmtCall(<<110, 61, 37, 100>>, <<Arg(100, <<0>>)>>),
      FmtCall(<<37, 100, 37, 37>>, <<Arg(100, <<100>>)>>),
      FmtCall(<<37, 115>>, <<Arg(115, Rep(97, 126))>>),
      FmtCall(<<37, 115>>, <<Arg(115, Rep(97, 127))>>),
      FmtCall(<<37, 115>>, <<Arg(115, Rep(97, 128))>>),
      FmtCall(<<37, 115>>, <<Arg(115, Rep(97, 130))>>),
      FmtCall(<<37, 115, 58, 37, 99>>, <<Arg(115, <<97, 98>>), Arg(99, <<90>>)>>),
      FmtCall(<<37, 115, 37, 115>>, <<Arg(115, Rep(97, 100)), Arg(115, Rep(99, 100))>>) }

Init ==
    /\ lcd = LCD_Display
    /\ copy = <<>>
    /\ hist = <<>>

GetLcd ==
    /\ Len(hist) < MaxOps
    /\ copy' = <<get_lcd(lcd)>>
    /\ hist' = Append(hist, Entry(Call("get_lcd", <<>>, <<>>, <<>>), lcd, lcd, "LiquidCrystal_I2C"))
    /\ UNCHANGED lcd

UseReturned ==
    /\ Len(hist) < MaxOps
    /\ copy # <<>>
    /\ \E str \in Msgs :
          LET r == CallOnReturned(lcd, copy[1], str)
          IN  /\ lcd' = r.lcd
              /\ copy' = <<r.copy>>
              /\ hist' = Append(hist, Entry(Call("returned.print", <<>>, str, <<>>), lcd, r.lcd, "void"))

InitDisplay ==
    /\ Len(hist) < MaxOps
    /\ lcd' = init_display(lcd)
    /\ hist' = Append(hist, Entry(Call("init_display", <<>>, <<>>, <<>>), lcd, lcd', "void"))
    /\ UNCHANGED copy

PrintXY ==
    /\ Len(hist) < MaxOps
    /\ \E xy \in Coords, message \in Msgs :
          /\ lcd' = print_x_y_message(lcd, xy[1], xy[2], message)
          /\ hist' = Append(hist, Entry(Call("print_x_y_message", xy, message, <<>>), lcd, lcd', "void"))
    /\ UNCHANGED copy

Clear ==
    /\ Len(hist) < MaxOps
    /\ lcd' = clear(lcd)
    /\ hist' = Append(hist, Entry(Call("clear", <<>>, <<>>, <<>>), lcd, lcd', "void"))
    /\ UNCHANGED copy

SetCursor ==
    /\ Len(hist) < MaxOps
    /\ \E xy \in Coords :
          /\ lcd' = set_cursor(lcd, xy[1], xy[2])
          /\ hist' = Append(hist, Entry(Call("set_cursor", xy, <<>>, <<>>), lcd, lcd', "void"))
    /\ UNCHANGED copy

PrintMsg ==
    /\ Len(hist) < MaxOps
    /\ \E message \in Msgs :
          /\ lcd' = print_message(lcd, message)
          /\ hist' = Append(hist, Entry(Call("print_message", <<>>, message, <<>>), lcd, lcd', "void"))
    /\ UNCHANGED copy

(* One writeString call with its inputs drawn from fc. *)
WriteStringFrom(fc) ==
    \E xy \in Coords, c \in fc, garbage \in Garbage :
       /\ WellFormed(c.format, c.args)
       /\ lcd' = writeString(lcd, xy[1], xy[2], c.format, c.args, garbage)
       /\ hist' = Append(hist, Entry(Call("writeString", xy, c.format, c.args), lcd, lcd', "void"))
       /\ UNCHANGED copy

WriteString ==
    /\ Len(hist) < MaxOps
    /\ WriteStringFrom(FmtCalls)

Write ==
    /\ Len(hist) < MaxOps
    /\ \E character \in Chars :
          /\ lcd' = write(lcd, character)
          /\ hist' = Append(hist, Entry(Call("write", <<>>, <<character>>, <<>>), lcd, lcd', "void"))
    /\ UNCHANGED copy

Next ==
    \/ GetLcd
    \/ UseReturned
    \/ InitDisplay
    \/ PrintXY
    \/ Clear
    \/ SetCursor
    \/ PrintMsg
    \/ WriteString
    \/ Write

Spec == Init /\ [][Next]_vars

(* The formatted writes alone, over the larger set of formats. *)
WriteStringFmt ==
    /\ Len(hist) < MaxFmtOps
    /\ WriteStringFrom(FmtCallsAll)

NextFmt == WriteStringFmt

SpecFmt == Init /\ [][NextFmt]_vars

(***************************************************************************)
(* What the history says.                                                  *)
(***************************************************************************)

(* The driver calls the owned driver received during the i-th call. *)
Issued(i) == SubSeq(lcd.calls, hist[i].pre + 1, hist[i].post)

DriverCall(f, a) == [f |-> f, a |-> a]

(* The calls never overlap and together make up the whole sequence. *)
HistShape ==
    /\ \A i \in 1..Len(hist) :
          /\ hist[i].pre <= hist[i].post
          /\ hist[i].pre = IF i = 1 THEN 0 ELSE hist[i - 1].post
    /\ Len(lcd.calls) = IF hist = <<>> THEN 0 ELSE hist[Len(hist)].post

Ops(S) == {i \in 1..Len(hist) : hist[i].call.op \in S}

SetCursorCall(xy) == DriverCall("setCursor", xy)

PrintCall(str) == DriverCall("print", str)

(* The driver calls a method makes on a driver that has received none. *)
CallsOf(l) == l.calls

OutsideGrid(xy) == xy[1] < 0 \/ xy[1] >= 20 \/ xy[2] < 0 \/ xy[2] >= 4

(* The complete formatted text of the i-th call, a writeString. *)
Text(i) == Format(hist[i].call.s, hist[i].call.args)

(* C1: every print(x, y, message) makes the driver receive exactly        *)
(* setCursor(x, y) and then print(message), with the caller's values and  *)
(* no other driver call.                                                  *)
C1_PrintXYForwards ==
    /\ HistShape
    /\ \A i \in Ops({"print_x_y_message"}) :
          Issued(i) = <<SetCursorCall(hist[i].call.xy), PrintCall(hist[i].call.s)>>

C1_Witness ==
    /\ Len(hist) >= 2
    /\ hist[2].call = Call("print_x_y_message", <<19, 3>>, <<72, 105>>, <<>>)
    /\ Issued(2) = <<SetCursorCall(<<19, 3>>), PrintCall(<<72, 105>>)>>
    /\ hist[1].post > 0

(* C2: every writeString(x, y, format, ...) makes the driver receive      *)
(* setCursor(x, y) and then one print, and when the complete formatted    *)
(* text has at most 127 bytes the printed text is exactly that text.      *)
C2_WriteStringFormats ==
    \A i \in Ops({"writeString"}) :
       /\ Len(Issued(i)) = 2
       /\ Issued(i)[1] = SetCursorCall(hist[i].call.xy)
       /\ Issued(i)[2].f = "print"
       /\ Len(Text(i)) <= BufSize - 1 => Issued(i)[2].a = Text(i)

C2_Witness ==
    /\ Len(hist) = 2
    /\ hist[1].call.s = <<118, 61, 37, 100>>
    /\ Issued(1) = <<SetCursorCall(hist[1].call.xy), PrintCall(<<118, 61, 45, 49, 50>>)>>
    /\ hist[2].call.s = <<37, 115>>
    /\ Len(Text(2)) = 127
    /\ Issued(2)[2] = PrintCall(Rep(97, 127))

(* C3: the owned driver is constructed with address 0x27 (a 7-bit         *)
(* address), 20 columns and 4 rows, and no sequence of calls changes      *)
(* these three values.                                                    *)
C3_FixedConfiguration ==
    /\ lcd.addr = 39
    /\ lcd.addr < 128
    /\ lcd.cols = 20
    /\ lcd.rows = 4

C3_Witness ==
    /\ Len(hist) = 3
    /\ hist[1].call.op = "init_display"
    /\ hist[2].call.op = "writeString"
    /\ hist[3].call.op = "get_lcd"
    /\ lcd.addr = 39 /\ lcd.cols = 20 /\ lcd.rows = 4

(* C4: clear() issues exactly one clear(), set_cursor(x, y) exactly one   *)
(* setCursor(x, y), print(message) exactly one print(message) and no      *)
(* setCursor, write(character) exactly one write(character); the          *)
(* arguments are the caller's and no other driver call is made.           *)
C4_SingleForward ==
    /\ \A i \in Ops({"clear"}) : Issued(i) = <<DriverCall("clear", <<>>)>>
    /\ \A i \in Ops({"set_cursor"}) : Issued(i) = <<SetCursorCall(hist[i].call.xy)>>
    /\ \A i \in Ops({"print_message"}) : Issued(i) = <<PrintCall(hist[i].call.s)>>
    /\ \A i \in Ops({"write"}) : Issued(i) = <<DriverCall("write", hist[i].call.s)>>

C4_Witness ==
    /\ Len(hist) = 3
    /\ hist[1].call.op = "set_cursor"
    /\ hist[2].call.op = "print_message"
    /\ hist[3].call.op = "write"
    /\ lcd.calls = <<SetCursorCall(<<20, 4>>), PrintCall(<<79, 75, 33>>),
                     DriverCall("write", <<223>>)>>

(* C5: set_cursor, print(x, y, message) and writeString pass x and y to   *)
(* the driver's setCursor as given, also when they are negative or        *)
(* outside the 20x4 grid; the print that follows is still made and the    *)
(* caller gets nothing back.                                              *)
C5_NoBoundsCheck ==
    \A i \in Ops({"set_cursor", "print_x_y_message", "writeString"}) :
       /\ Len(Issued(i)) >= 1
       /\ Issued(i)[1] = SetCursorCall(hist[i].call.xy)
       /\ hist[i].call.op # "set_cursor" =>
             Len(Issued(i)) = 2 /\ Issued(i)[2].f = "print"
       /\ hist[i].ret = "void"

C5_Witness ==
    /\ Len(hist) = 3
    /\ hist[1].call.op = "set_cursor" /\ hist[1].call.xy = <<-1, -2>>
    /\ hist[2].call.op = "print_x_y_message" /\ hist[2].call.xy = <<20, 4>>
    /\ hist[3].call.op = "writeString" /\ hist[3].call.xy = <<-1, -2>>
    /\ \A i \in 1..3 : OutsideGrid(hist[i].call.xy)
    /\ Issued(1) = <<SetCursorCall(<<-1, -2>>)>>
    /\ Issued(2)[1] = SetCursorCall(<<20, 4>>)
    /\ Issued(3)[1] = SetCursorCall(<<-1, -2>>)

(* C6: when the complete formatted text of a writeString has 128 bytes    *)
(* or more, the printed text is exactly its first 127 bytes (with its     *)
(* NUL it fills the 128-byte buffer and no more), setCursor(x, y) and     *)
(* print are issued as otherwise, and the caller gets nothing back.       *)
C6_SilentTruncation ==
    \A i \in Ops({"writeString"}) :
       Len(Text(i)) >= BufSize =>
          /\ Issued(i) = <<SetCursorCall(hist[i].call.xy),
                           PrintCall(SubSeq(Text(i), 1, BufSize - 1))>>
          /\ Len(Issued(i)[2].a) + 1 = BufSize
          /\ hist[i].ret = "void"

C6_Witness ==
    /\ Len(hist) = 2
    /\ hist[1].call.s = <<37, 115, 37, 115>>
    /\ Len(Text(1)) = 200
    /\ Issued(1)[2] = PrintCall(Rep(97, 100) \o Rep(99, 27))
    /\ hist[2].call.s = Rep(98, 128)
    /\ Issued(2)[2] = PrintCall(Rep(98, 127))

(* C7: every init_display() issues init() and then backlight(), once      *)
(* each and nothing else, also when it is not the first call.             *)
C7_InitDisplayDelegates ==
    \A i \in Ops({"init_display"}) :
       Issued(i) = <<DriverCall("init", <<>>), DriverCall("backlight", <<>>)>>

C7_Witness ==
    /\ Len(hist) = 3
    /\ \A i \in 1..3 : hist[i].call.op = "init_display"
    /\ Len(lcd.calls) = 6
    /\ lcd.calls[5].f = "init" /\ lcd.calls[6].f = "backlight"

(* C8: set_cursor(x, y) followed by print(message) issues the same driver *)
(* calls as print(x, y, message); and writeString(x, y, format) with a    *)
(* format of at most 127 bytes without conversion specifiers issues the   *)
(* same driver calls as print(x, y, format).                              *)
C8_SameAsPrintXY ==
    /\ \A i \in Ops({"set_cursor"}) :
          (i < Len(hist) /\ hist[i + 1].call.op = "print_message") =>
             Issued(i) \o Issued(i + 1) =
                CallsOf(print_x_y_message(LCD_Display, hist[i].call.xy[1],
                                          hist[i].call.xy[2], hist[i + 1].call.s))
    /\ \A i \in Ops({"writeString"}) :
          (/\ hist[i].call.args = <<>>
           /\ FirstPercent(hist[i].call.s) = 0
           /\ Len(hist[i].call.s) <= BufSize - 1) =>
             Issued(i) =
                CallsOf(print_x_y_message(LCD_Display, hist[i].call.xy[1],
                                          hist[i].call.xy[2], hist[i].call.s))

C8_Witness ==
    /\ Len(hist) = 3
    /\ hist[1].call = Call("set_cursor", <<-1, -2>>, <<>>, <<>>)
    /\ hist[2].call = Call("print_message", <<>>, <<72, 105>>, <<>>)
    /\ hist[3].call = Call("writeString", <<-1, -2>>, Rep(98, 127), <<>>)
    /\ Issued(1) \o Issued(2) = <<SetCursorCall(<<-1, -2>>), PrintCall(<<72, 105>>)>>
    /\ Issued(3) = <<SetCursorCall(<<-1, -2>>), PrintCall(Rep(98, 127))>>

Forwarding == {"print_x_y_message", "clear", "set_cursor", "print_message",
               "writeString", "write"}

(* Whether init_display was called before the i-th call. *)
InitBefore(i) == \E j \in 1..(i - 1) : hist[j].call.op = "init_display"

(* C9: the driver calls a forwarding method issues depend on the call's   *)
(* arguments alone: two calls with the same arguments issue the same      *)
(* driver calls whatever came before, and a call is forwarded also when   *)
(* init_display() has not been called.                                    *)
C9_Stateless ==
    /\ \A i, j \in Ops(Forwarding) :
          hist[i].call = hist[j].call => Issued(i) = Issued(j)
    /\ \A i \in Ops(Forwarding) : ~InitBefore(i) => Issued(i) # <<>>

C9_Witness ==
    /\ Len(hist) = 3
    /\ hist[1].call.op = "clear"
    /\ hist[2].call.op = "init_display"
    /\ hist[3].call.op = "clear"
    /\ Issued(1) = Issued(3)
    /\ Issued(1) = <<DriverCall("clear", <<>>)>>

(* The last get_lcd call (0 when there is none). *)
LastGet ==
    IF Ops({"get_lcd"}) = {} THEN 0
    ELSE CHOOSE g \in Ops({"get_lcd"}) : \A h \in Ops({"get_lcd"}) : h <= g

(* The calls made on the returned object after the g-th call. *)
PrintsOnReturned(g) ==
    LET made == SelectSeq(SubSeq(hist, g + 1, Len(hist)),
                          LAMBDA e : e.call.op = "returned.print")
    IN  [k \in 1..Len(made) |-> PrintCall(made[k].call.s)]

(* C10: get_lcd() issues no driver call and returns a copy of the driver; *)
(* calls made on the returned object reach that copy and not the owned    *)
(* driver, which alone receives the calls of the wrapper's methods.       *)
C10_GetLcdCopies ==
    /\ HistShape
    /\ \A i \in Ops({"get_lcd", "returned.print"}) : Issued(i) = <<>>
    /\ \A i \in Ops({"get_lcd"}) : hist[i].ret = "LiquidCrystal_I2C"
    /\ (copy = <<>>) = (LastGet = 0)
    /\ LastGet # 0 =>
          /\ copy[1].addr = lcd.addr /\ copy[1].cols = lcd.cols /\ copy[1].rows = lcd.rows
          /\ copy[1].calls =
                SubSeq(lcd.calls, 1, hist[LastGet].post) \o PrintsOnReturned(LastGet)

C10_Witness ==
    /\ Len(hist) = 3
    /\ hist[1].call.op = "get_lcd"
    /\ hist[2].call = Call("returned.print", <<>>, <<72, 105>>, <<>>)
    /\ hist[3].call = Call("print_message", <<>>, <<79, 75, 33>>, <<>>)
    /\ lcd.calls = <<PrintCall(<<79, 75, 33>>)>>
    /\ copy[1].calls = <<PrintCall(<<72, 105>>)>>

====
